---- MODULE Spec2Model ----
(***************************************************************************)
(* Creation operators of rx.linq.observable_creation (ObservableCreation): *)
(* empty, return_value, throw_exception, range, from_array, generate,      *)
(* never, create, defer and using, driven by the immediate scheduler, the  *)
(* current-thread (trampoline) scheduler or a scheduler that runs actions  *)
(* later.  Two observers may subscribe; every scheduled action invocation  *)
(* is one step.                                                            *)
(***************************************************************************)
EXTENDS Integers, Sequences, FiniteSets, TLC

\* Largest count of range, largest limit of generate's condition.
MaxCount == 2
\* Largest length of the array given to from_array.
MaxLen == 2
\* Largest number of dispose calls on one subscription's disposable.
MaxDispose == 2

Subs == {1, 2}
Values == {1, 2}
Starts == {0, 3}
Policies == {"immediate", "current", "later"}
SchedulerArgs == Policies \cup {"None"}

\* ---------------------------------------------------------------- values

NoErr == [cls |-> "none", id |-> 0, wraps |-> 0]
\* An instance of the base exception type, and an instance of a subclass.
Errors == {[cls |-> "Exception", id |-> 1, wraps |-> 0],
           [cls |-> "ValueError", id |-> 2, wraps |-> 0]}

OnNext(v) == [kind |-> "N", val |-> v, err |-> NoErr]
OnError(e) == [kind |-> "E", val |-> 0, err |-> e]
OnCompleted == [kind |-> "C", val |-> 0, err |-> NoErr]

\* The closure variables of one subscription (from_array's count,
\* generate's first and state).
NoClosure == [count |-> 0, first |-> TRUE, state |-> 0]

\* ------------------------------------------------------------ observables

Obs(op, sched) ==
    [op |-> op, sched |-> sched, value |-> 0, exception |-> NoErr,
     start |-> 0, count |-> 0, array |-> <<>>, initial_state |-> 0,
     limit |-> 0, raiser |-> "none", raiseAt |-> 0]

\* scheduler = scheduler or immediate_scheduler
OrImmediate(scheduler) == IF scheduler = "None" THEN "immediate" ELSE scheduler
\* scheduler = scheduler or current_thread_scheduler
OrCurrentThread(scheduler) == IF scheduler = "None" THEN "current" ELSE scheduler

empty(scheduler) == Obs("empty", OrImmediate(scheduler))

never == Obs("never", "immediate")

return_value(value, scheduler) ==
    [Obs("return_value", OrImmediate(scheduler)) EXCEPT !.value = value]

\* exception = Exception(exception) if type(exception) is Exception else exception
throw_exception(exception, scheduler) ==
    [Obs("throw_exception", OrImmediate(scheduler)) EXCEPT
        !.exception = IF exception.cls = "Exception"
                      THEN [exception EXCEPT !.wraps = @ + 1]
                      ELSE exception]

range(start, count, scheduler) ==
    [Obs("range", OrCurrentThread(scheduler)) EXCEPT !.start = start, !.count = count]

from_array(array, scheduler) ==
    [Obs("from_array", OrCurrentThread(scheduler)) EXCEPT !.array = array]

\* xs = cls.return_value(value, scheduler); ret = xs.repeat(repeat_count),
\* for a finite repeat_count: the observable keeps xs's value and scheduler.
repeat(value, repeat_count, scheduler) ==
    [Obs("repeat", OrCurrentThread(scheduler)) EXCEPT
        !.value = value, !.count = repeat_count]

\* The callbacks of generate are condition(x) = x < limit, iterate(x) = x + 1
\* and result_selector(x) = 10 * x + 1; the callback named raiser raises
\* exception when it is called with state raiseAt.
generate(initial_state, limit, raiser, raiseAt, exception, scheduler) ==
    [Obs("generate", OrCurrentThread(scheduler)) EXCEPT
        !.initial_state = initial_state, !.limit = limit,
        !.raiser = raiser, !.raiseAt = raiseAt, !.exception = exception]

\* create(subscribe) with a user subscribe function that raises exception
\* (raiser = "subscribe") or returns None without notifying.
create(raiser, exception) ==
    [Obs("create", "immediate") EXCEPT !.raiser = raiser, !.exception = exception]

condition(o, x) == x < o.limit
iterate(o, x) == x + 1
result_selector(o, x) == 10 * x + 1
Raises(o, cb, x) == o.raiser = cb /\ o.raiseAt = x

\* ------------------------------------------------------------------ state

VARIABLES
    source,     \* the observable the observers subscribe to (or the one the
                \* wrapper's observable_factory returns)
    wrapper,    \* the defer or using around source, if any
    via,        \* via[s]: observer s subscribes to the wrapper, not to source
    draining,   \* current-thread scheduler: a trampoline loop is active
    queue,      \* pending actions of the current-thread or later scheduler
    local,      \* pending actions of the immediate scheduler's inline loop
    busy,       \* the observer whose subscribe call has not returned, or 0
    sub         \* sub[s]: the subscription of observer s

vars == <<source, wrapper, via, draining, queue, local, busy, sub>>

\* ------------------------------------------- subscribe functions (leaves)
\* What a subscribe function does: raise (raise # NoErr), or ask the scheduler
\* for how ("schedule", "schedule_recursive", "none") with the recursive state,
\* and return ret ("scheduled": the scheduler's disposable, "empty").

SubscribeResult(how, state, ret, closure) ==
    [raise |-> NoErr, how |-> how, state |-> state, ret |-> ret, closure |-> closure]

empty_subscribe(o) == SubscribeResult("schedule", 0, "scheduled", NoClosure)

\* Mutant: subscribe raises instead of returning the empty disposable.
never_subscribe_raises(o) ==
    [SubscribeResult("none", 0, "empty", NoClosure) EXCEPT
        !.raise = [cls |-> "TypeError", id |-> 3, wraps |-> 0]]

never_subscribe(o) == SubscribeResult("none", 0, "empty", NoClosure)

return_value_subscribe(o) == SubscribeResult("schedule", 0, "scheduled", NoClosure)

throw_exception_subscribe(o) == SubscribeResult("schedule", 0, "scheduled", NoClosure)

\* Mutant: subscribe does not return the scheduler's disposable.
range_subscribe_returns_nothing(o) ==
    SubscribeResult("schedule_recursive", 0, "empty", NoClosure)

range_subscribe(o) == SubscribeResult("schedule_recursive", 0, "scheduled", NoClosure)

\* Mutant: count is set once, outside subscribe, so a new subscription starts
\* from the count the subscriptions before it have reached.
from_array_subscribe_shared_count(o) ==
    SubscribeResult("schedule_recursive", 0, "scheduled",
                    [NoClosure EXCEPT !.count =
                        IF sub[1].closure.count > sub[2].closure.count
                        THEN sub[1].closure.count ELSE sub[2].closure.count])

from_array_subscribe(o) ==
    SubscribeResult("schedule_recursive", 0, "scheduled", [NoClosure EXCEPT !.count = 0])

\* Mutant: first starts False, so iterate runs before the first condition.
generate_subscribe_not_first(o) ==
    SubscribeResult("schedule_recursive", 0, "scheduled",
                    [NoClosure EXCEPT !.first = FALSE, !.state = o.initial_state])

generate_subscribe(o) ==
    SubscribeResult("schedule_recursive", 0, "scheduled",
                    [NoClosure EXCEPT !.first = TRUE, !.state = o.initial_state])

create_subscribe(o) ==
    IF o.raiser = "subscribe"
    THEN [SubscribeResult("none", 0, "empty", NoClosure) EXCEPT !.raise = o.exception]
    ELSE SubscribeResult("none", 0, "empty", NoClosure)

\* ----------------------------------------------------- scheduled actions
\* What one invocation of a scheduled action does: the notifications it
\* sends to the observer, in order; whether it calls the re-invocation
\* handle, and with which state; the closure variables afterwards; the user
\* callbacks it called, in order.

ActionResult(emit, again, state, closure, calls) ==
    [emit |-> emit, again |-> again, state |-> state, closure |-> closure,
     calls |-> calls]

empty_action(o, closure, i) ==
    ActionResult(<<OnCompleted>>, FALSE, i, closure, <<>>)

\* Mutant: the action does not call on_completed.
return_value_action_no_completed(o, closure, i) ==
    ActionResult(<<OnNext(o.value)>>, FALSE, i, closure, <<>>)

return_value_action(o, closure, i) ==
    ActionResult(<<OnNext(o.value), OnCompleted>>, FALSE, i, closure, <<>>)

throw_exception_action(o, closure, i) ==
    ActionResult(<<OnError(o.exception)>>, FALSE, i, closure, <<>>)

\* How an action asks for its next iteration: "handle", it calls the
\* re-invocation handle the scheduler gave it; "direct", it calls itself.

\* Mutant: action(scheduler, i + 1) in place of scheduler(i + 1).
range_reinvoke_direct(o) == "direct"

\* scheduler(i + 1)
range_reinvoke(o) == "handle"

\* action1(action)
from_array_reinvoke(o) == "handle"

\* action1()
generate_reinvoke(o) == "handle"

\* Mutant: i <= count.
range_action_one_more(o, closure, i) ==
    IF i <= o.count
    THEN ActionResult(<<OnNext(o.start + i)>>, TRUE, i + 1, closure, <<>>)
    ELSE ActionResult(<<OnCompleted>>, FALSE, i, closure, <<>>)

range_action(o, closure, i) ==
    IF i < o.count
    THEN ActionResult(<<OnNext(o.start + i)>>, TRUE, i + 1, closure, <<>>)
    ELSE ActionResult(<<OnCompleted>>, FALSE, i, closure, <<>>)

\* Mutant: count < len(array) - 1.
from_array_action_stops_early(o, closure, i) ==
    IF closure.count < Len(o.array) - 1
    THEN ActionResult(<<OnNext(o.array[closure.count + 1])>>, TRUE, 0,
                      [closure EXCEPT !.count = @ + 1], <<>>)
    ELSE ActionResult(<<OnCompleted>>, FALSE, i, closure, <<>>)

from_array_action(o, closure, i) ==
    IF closure.count < Len(o.array)
    THEN ActionResult(<<OnNext(o.array[closure.count + 1])>>, TRUE, 0,
                      [closure EXCEPT !.count = @ + 1], <<>>)
    ELSE ActionResult(<<OnCompleted>>, FALSE, i, closure, <<>>)

\* xs.repeat(count): the observer is subscribed to xs count times, one after
\* the other; each time xs's scheduled action runs, its value is passed on,
\* and its on_completed starts the next subscription or, after the last one,
\* is passed on.  i is the number of subscriptions that have completed.
repeat_subscribe(o) == SubscribeResult("schedule", 0, "scheduled", NoClosure)

repeat_action(o, closure, i) ==
    LET inner == return_value_action(o, closure, i).emit
        values == SelectSeq(inner, LAMBDA n : n.kind = "N")
        more == i + 1 < o.count
    IN  ActionResult(values \o (IF more THEN <<>> ELSE <<OnCompleted>>),
                     more, i + 1, closure, <<>>)

\* Mutant: the except block does not return, and the code after it sends
\* on_completed.
generate_except_falls_through(o, closure, calls) ==
    ActionResult(<<OnError(o.exception), OnCompleted>>, FALSE, 0, closure, calls)

\* Mutant: the except block calls the re-invocation handle.
generate_except_reinvokes(o, closure, calls) ==
    ActionResult(<<OnError(o.exception)>>, TRUE, 0, closure, calls)

\* except Exception as exception: observer.on_error(exception); return
generate_except(o, closure, calls) ==
    ActionResult(<<OnError(o.exception)>>, FALSE, 0, closure, calls)

generate_action(o, closure, i) ==
    LET applies == ~closure.first
        itRaises == applies /\ Raises(o, "iterate", closure.state)
        state == IF applies /\ ~itRaises THEN iterate(o, closure.state)
                 ELSE closure.state
        condRaises == ~itRaises /\ Raises(o, "condition", state)
        has_result == ~itRaises /\ ~condRaises /\ condition(o, state)
        selRaises == has_result /\ Raises(o, "result_selector", state)
        calls == (IF applies THEN <<"iterate">> ELSE <<>>)
                 \o (IF ~itRaises THEN <<"condition">> ELSE <<>>)
                 \o (IF has_result THEN <<"result_selector">> ELSE <<>>)
        after == [closure EXCEPT !.first = FALSE, !.state = state]
    IN  IF itRaises \/ condRaises \/ selRaises
        THEN generate_except(o, after, calls)
        ELSE IF has_result
        THEN ActionResult(<<OnNext(result_selector(o, state))>>, TRUE, 0, after, calls)
        ELSE ActionResult(<<OnCompleted>>, FALSE, 0, after, calls)

\* -------------------------------------------------------- defer and using
\* A wrapper is none, defer(observable_factory) or
\* using(resource_factory, observable_factory).  rf is what resource_factory
\* does ("raise", or the resource it returns: "None", a "truthy" disposable,
\* a "falsy" disposable); of is what observable_factory does ("raise", or
\* "ok": it returns the source observable).

Wrapper(op, rf, of, exception) ==
    [op |-> op, rf |-> rf, of |-> of, exception |-> exception]

NoWrapper == Wrapper("none", "None", "ok", NoErr)

\* What the wrapper's subscribe function does before subscribing to target:
\* the factories it calls, the resource it obtained, and the disposables it
\* composes with target's subscription.
Plan(target, resource, disposable, calls) ==
    [target |-> target, resource |-> resource, disposable |-> disposable,
     calls |-> calls]

direct_subscribe(w, o) == Plan(o, "unset", {}, <<>>)

\* Mutant: the except block subscribes the observer to empty().
defer_subscribe_completes(w, o) ==
    IF w.of = "raise"
    THEN Plan(empty("None"), "unset", {}, <<"observable_factory">>)
    ELSE Plan(o, "unset", {}, <<"observable_factory">>)

defer_subscribe(w, o) ==
    IF w.of = "raise"
    THEN Plan(throw_exception(w.exception, "None"), "unset", {},
              <<"observable_factory">>)
    ELSE Plan(o, "unset", {}, <<"observable_factory">>)

using_subscribe(w, o) ==
    IF w.rf = "raise"
    THEN Plan(throw_exception(w.exception, "None"), "unset", {},
              <<"resource_factory">>)
    ELSE LET disposable == IF w.rf = "truthy" THEN {"resource"} ELSE {}
         IN  IF w.of = "raise"
             THEN Plan(throw_exception(w.exception, "None"), w.rf, disposable,
                       <<"resource_factory", "observable_factory">>)
             ELSE Plan(o, w.rf, disposable,
                       <<"resource_factory", "observable_factory">>)

\* ------------------------------------------------- inputs and Init

Arrays == UNION {[1..n -> Values] : n \in 0..MaxLen}

Generators ==
    {generate(i, l, "none", 0, NoErr, sc) :
        i \in {0, 1}, l \in 0..MaxCount, sc \in SchedulerArgs}
    \cup UNION {{generate(i, l, cb, at, e, sc) :
                    i \in {0, 1}, l \in 0..MaxCount, sc \in SchedulerArgs} :
                cb \in {"condition", "iterate", "result_selector"},
                at \in 0..MaxCount, e \in Errors}

Sources ==
    {empty(sc) : sc \in SchedulerArgs}
    \cup {never}
    \cup {return_value(v, sc) : v \in Values, sc \in SchedulerArgs}
    \cup {throw_exception(e, sc) : e \in Errors, sc \in SchedulerArgs}
    \cup {range(st, n, sc) : st \in Starts, n \in 0..MaxCount, sc \in SchedulerArgs}
    \cup {from_array(a, sc) : a \in Arrays, sc \in SchedulerArgs}
    \cup Generators
    \cup {repeat(v, n, sc) : v \in Values, n \in 1..MaxCount, sc \in SchedulerArgs}
    \cup {create("subscribe", e) : e \in Errors}
    \cup {create("none", NoErr)}

Wrappers ==
    {NoWrapper, Wrapper("defer", "None", "ok", NoErr)}
    \cup {Wrapper("defer", "None", "raise", e) : e \in Errors}
    \cup {Wrapper("using", "raise", "ok", e) : e \in Errors}
    \cup {Wrapper("using", rf, "ok", NoErr) : rf \in {"None", "truthy", "falsy"}}
    \cup {Wrapper("using", rf, "raise", e) :
            rf \in {"None", "truthy", "falsy"}, e \in Errors}

FactoryRaises(w) == w.rf = "raise" \/ w.of = "raise"

NoSub ==
    [phase |-> "idle", eff |-> never, handle |-> {}, disposed |-> FALSE,
     log |-> <<>>, late |-> <<>>, closure |-> NoClosure, calls |-> <<>>,
     resource |-> "unset", released |-> 0, raised |-> NoErr, depth |-> 0,
     disposals |-> 0]

Init ==
    /\ source \in Sources
    /\ wrapper \in Wrappers
    /\ FactoryRaises(wrapper) => source = never
    /\ via \in [Subs -> BOOLEAN]
    /\ via[1] = (wrapper.op # "none")
    /\ via[2] => via[1]
    /\ draining \in (IF source.sched = "current" THEN BOOLEAN ELSE {FALSE})
    /\ queue = <<>>
    /\ local = <<>>
    /\ busy = 0
    /\ sub = [s \in Subs |-> NoSub]

\* ------------------------------------------------- the framework's parts
\* AnonymousObservable.subscribe: calls the stored subscribe function.
subscribe(o) ==
    CASE o.op = "empty" -> empty_subscribe(o)
      [] o.op = "never" -> never_subscribe(o)
      [] o.op = "return_value" -> return_value_subscribe(o)
      [] o.op = "throw_exception" -> throw_exception_subscribe(o)
      [] o.op = "range" -> range_subscribe(o)
      [] o.op = "from_array" -> from_array_subscribe(o)
      [] o.op = "generate" -> generate_subscribe(o)
      [] o.op = "create" -> create_subscribe(o)
      [] o.op = "repeat" -> repeat_subscribe(o)

wrapper_subscribe(w, o) ==
    CASE w.op = "none" -> direct_subscribe(w, o)
      [] w.op = "defer" -> defer_subscribe(w, o)
      [] w.op = "using" -> using_subscribe(w, o)

\* The scheduler calls the action it was given.
action(o, closure, i) ==
    CASE o.op = "empty" -> empty_action(o, closure, i)
      [] o.op = "return_value" -> return_value_action(o, closure, i)
      [] o.op = "throw_exception" -> throw_exception_action(o, closure, i)
      [] o.op = "range" -> range_action(o, closure, i)
      [] o.op = "from_array" -> from_array_action(o, closure, i)
      [] o.op = "generate" -> generate_action(o, closure, i)
      [] o.op = "repeat" -> repeat_action(o, closure, i)

reinvoke(o) ==
    CASE o.op = "range" -> range_reinvoke(o)
      [] o.op = "from_array" -> from_array_reinvoke(o)
      [] o.op = "generate" -> generate_reinvoke(o)
      [] OTHER -> "none"

\* The number of invocations of the action that are active at once while the
\* scheduler runs it with state i: the handle enqueues and returns, a direct
\* call nests.
RECURSIVE Nesting(_, _, _)
Nesting(o, closure, i) ==
    LET a == action(o, closure, i)
    IN  IF a.again /\ reinvoke(o) = "direct"
        THEN 1 + Nesting(o, a.closure, a.state)
        ELSE 1

Item(s, i) == [sub |-> s, state |-> i]

\* The disposable the subscription's handle holds cancels its scheduled work.
Cancels(handle) == "work" \in handle

\* CompositeDisposable.dispose / Disposable.dispose of the handle: every
\* pending action of the subscription is cancelled, the resource is released.
Uncancelled(q, s, handle) ==
    IF Cancels(handle) THEN SelectSeq(q, LAMBDA it : it.sub # s) ELSE q

Released(n, handle) == IF "resource" \in handle THEN n + 1 ELSE n

HandleReturned(s) == sub[s].phase = "subscribed" /\ busy = 0

\* Observer s subscribes: the wrapper's subscribe function, then the target's.
\* An error raised by the target's subscribe function is raised by subscribe.
Subscribe(s) ==
    /\ sub[s].phase = "idle"
    /\ busy = 0
    /\ s = 2 => sub[1].phase # "idle"
    /\ LET w == IF via[s] THEN wrapper ELSE NoWrapper
           plan == wrapper_subscribe(w, source)
           r == subscribe(plan.target)
           policy == plan.target.sched
           inline == policy = "immediate" \/ (policy = "current" /\ ~draining)
       IN  IF r.raise # NoErr
           THEN /\ sub' = [sub EXCEPT ![s] =
                            [@ EXCEPT !.phase = "raised", !.raised = r.raise,
                                      !.calls = plan.calls,
                                      !.resource = plan.resource]]
                /\ UNCHANGED <<draining, queue, local, busy>>
           ELSE /\ sub' = [sub EXCEPT ![s] =
                            [@ EXCEPT !.phase = "subscribed",
                                      !.eff = plan.target,
                                      !.handle = (IF r.ret = "scheduled"
                                                  THEN {"work"} ELSE {})
                                                 \cup plan.disposable,
                                      !.closure = r.closure,
                                      !.calls = plan.calls,
                                      !.resource = plan.resource]]
                /\ IF r.how = "none"
                   THEN UNCHANGED <<draining, queue, local, busy>>
                   ELSE /\ local' = IF policy = "immediate"
                                    THEN Append(local, Item(s, r.state)) ELSE local
                        /\ queue' = IF policy = "immediate"
                                    THEN queue ELSE Append(queue, Item(s, r.state))
                        /\ draining' = (draining \/ policy = "current")
                        /\ busy' = IF inline THEN s ELSE busy
    /\ UNCHANGED <<source, wrapper, via>>

\* The scheduler runs the next pending action; d: the observer disposes its
\* subscription from inside on_next.
Run(d) ==
    /\ local # <<>> \/ queue # <<>>
    /\ LET inl == local # <<>>
           it == IF inl THEN Head(local) ELSE Head(queue)
           s == it.sub
           me == sub[s]
           a == action(me.eff, me.closure, it.state)
           disposedNow == me.disposed \/ d
           push == a.again /\ ~(disposedNow /\ Cancels(me.handle))
           rest == IF inl THEN Tail(local) ELSE Tail(queue)
           kept == IF d THEN Uncancelled(rest, s, me.handle) ELSE rest
           next == IF push THEN Append(kept, Item(s, a.state)) ELSE kept
       IN  /\ d => HandleReturned(s) /\ ~me.disposed /\ a.emit[1].kind = "N"
           /\ sub' = [sub EXCEPT ![s] =
                        [@ EXCEPT !.log = @ \o a.emit,
                                  !.late = @ \o (IF me.disposed THEN a.emit
                                                 ELSE IF d THEN Tail(a.emit)
                                                 ELSE <<>>),
                                  !.closure = a.closure,
                                  !.calls = @ \o a.calls,
                                  !.disposed = disposedNow,
                                  !.disposals = IF d THEN @ + 1 ELSE @,
                                  !.depth =
                                     LET n == Nesting(me.eff, me.closure, it.state)
                                     IN  IF n > @ THEN n ELSE @,
                                  !.released = IF d THEN Released(@, me.handle)
                                               ELSE @]]
           /\ local' = IF inl THEN next ELSE local
           /\ queue' = IF inl THEN queue ELSE next
           /\ draining' = IF ~inl /\ me.eff.sched = "current" /\ next = <<>>
                          THEN FALSE ELSE draining
           /\ busy' = IF (inl /\ next = <<>>) \/ (~inl /\ next = <<>>)
                      THEN 0 ELSE busy
    /\ UNCHANGED <<source, wrapper, via>>

\* The holder of the disposable that subscribe returned disposes it.
Dispose(s) ==
    /\ HandleReturned(s)
    /\ ~sub[s].disposed
    /\ sub' = [sub EXCEPT ![s] =
                 [@ EXCEPT !.disposed = TRUE,
                           !.disposals = @ + 1,
                           !.released = Released(@, sub[s].handle)]]
    /\ queue' = Uncancelled(queue, s, sub[s].handle)
    /\ UNCHANGED <<source, wrapper, via, draining, local, busy>>

\* The disposable is disposed once more: dispose is idempotent, the second
\* and later calls do nothing.
DisposeAgain(s) ==
    /\ HandleReturned(s)
    /\ sub[s].disposed
    /\ sub[s].disposals < MaxDispose
    /\ sub' = [sub EXCEPT ![s] = [@ EXCEPT !.disposals = @ + 1]]
    /\ UNCHANGED <<source, wrapper, via, draining, queue, local, busy>>

Next ==
    \/ \E s \in Subs : Subscribe(s)
    \/ \E d \in BOOLEAN : Run(d)
    \/ \E s \in Subs : Dispose(s)
    \/ \E s \in Subs : DisposeAgain(s)

Spec == Init /\ [][Next]_vars

\* ----------------------------------------------------------------- claims

IsPrefix(a, b) == Len(a) <= Len(b) /\ \A k \in 1..Len(a) : a[k] = b[k]

Terminal(n) == n.kind \in {"C", "E"}

HasItem(s) ==
    \/ \E k \in 1..Len(queue) : queue[k].sub = s
    \/ \E k \in 1..Len(local) : local[k].sub = s

ItemsOf(s) ==
    {queue[k] : k \in {j \in 1..Len(queue) : queue[j].sub = s}}
    \cup {local[k] : k \in {j \in 1..Len(local) : local[j].sub = s}}

\* The subscription has run to its end without being disposed.
RanOut(s) == sub[s].phase = "subscribed" /\ ~sub[s].disposed /\ ~HasItem(s)

Count(seq, x) == Cardinality({k \in 1..Len(seq) : seq[k] = x})

\* C1: a subscription delivers at most one terminal notification
\* (on_completed or on_error), and nothing after it.
C1_TerminalOnceAndLast ==
    \A s \in Subs : \A k \in 1..Len(sub[s].log) :
        Terminal(sub[s].log[k]) => k = Len(sub[s].log)

C1_Witness ==
    \E s \in Subs :
        /\ via[s] /\ wrapper.op = "using"
        /\ sub[s].eff.op = "generate"
        /\ Len(sub[s].log) = 2
        /\ sub[s].log[2].kind = "E"
        /\ ~HasItem(s)

\* C2: once the disposable returned by subscribe has been disposed, no
\* notification of any kind reaches the observer.
C2_NothingAfterDispose ==
    \A s \in Subs : sub[s].late = <<>>

\* C3: range(start, n) delivers start, ..., start+n-1 in order, then one
\* on_completed and no on_error; the recursive state goes 0, 1, ..., n by one.
RangeExpected(o) ==
    [k \in 1..o.count |-> OnNext(o.start + k - 1)] \o <<OnCompleted>>

C3_RangeSequence ==
    \A s \in Subs :
        (sub[s].phase = "subscribed" /\ sub[s].eff.op = "range") =>
            /\ IsPrefix(sub[s].log, RangeExpected(sub[s].eff))
            /\ \A it \in ItemsOf(s) :
                  it.state = Len(sub[s].log) /\ it.state <= sub[s].eff.count
            /\ RanOut(s) => sub[s].log = RangeExpected(sub[s].eff)

C3_Witness ==
    \E s \in Subs :
        /\ sub[s].eff.op = "range" /\ sub[s].eff.start = 3
        /\ sub[s].eff.count = MaxCount
        /\ RanOut(s)
        /\ Len(sub[s].log) = MaxCount + 1

\* C4: when no callback raises, generate delivers selector(s_0), ...,
\* selector(s_{k-1}) and then one on_completed, s_0 the initial state,
\* s_{j+1} = iterate(s_j), k least with cond(s_k) false; iterate is not called
\* before the first call of cond and exactly once before each later one.
GenerateLength(o) ==
    IF o.limit > o.initial_state THEN o.limit - o.initial_state ELSE 0

GenerateExpected(o) ==
    [j \in 1..GenerateLength(o) |-> OnNext(10 * (o.initial_state + j - 1) + 1)]
    \o <<OnCompleted>>

\* The calls of generate's callbacks, without the calls of the factories.
CallbackCalls(s) ==
    SelectSeq(sub[s].calls,
              LAMBDA c : c \in {"condition", "iterate", "result_selector"})

NoError(s) == \A k \in 1..Len(sub[s].log) : sub[s].log[k].kind # "E"

C4_GenerateSequence ==
    \A s \in Subs :
        (sub[s].phase = "subscribed" /\ sub[s].eff.op = "generate"
            /\ NoError(s)) =>
            LET c == CallbackCalls(s) IN
            /\ IsPrefix(sub[s].log, GenerateExpected(sub[s].eff))
            /\ RanOut(s) => /\ sub[s].log = GenerateExpected(sub[s].eff)
                            /\ Count(c, "condition")
                                 = GenerateLength(sub[s].eff) + 1
            /\ c # <<>> => c[1] = "condition"
            /\ \A p \in 2..Len(c) :
                  c[p] = "condition" => c[p - 1] = "iterate"
            /\ \A p \in 1..Len(c) :
                  c[p] = "iterate" => (p > 1 /\ c[p - 1] # "iterate")
            /\ c # <<>> => Count(c, "iterate") = Count(c, "condition") - 1

C4_Witness ==
    \E s \in Subs :
        /\ sub[s].eff.op = "generate"
        /\ sub[s].eff.initial_state = 0 /\ sub[s].eff.limit = MaxCount
        /\ RanOut(s)
        /\ sub[s].log[Len(sub[s].log)].kind = "C"
        /\ Len(sub[s].log) = MaxCount + 1

\* C5: if a callback of generate raises during iteration j, the observer has
\* received the j-1 values of the earlier iterations, then one on_error, and
\* nothing else; the handle is not re-invoked and no callback is called again.
RaisingIteration(o) ==
    IF o.raiser = "iterate" THEN o.raiseAt - o.initial_state + 2
    ELSE o.raiseAt - o.initial_state + 1

C5_GenerateError ==
    \A s \in Subs :
        (sub[s].eff.op = "generate" /\ ~NoError(s)) =>
            LET o == sub[s].eff
                j == RaisingIteration(o)
                c == CallbackCalls(s)
                log == sub[s].log
            IN  /\ Len(log) = j
                /\ \A k \in 1..(j - 1) :
                      log[k] = OnNext(10 * (o.initial_state + k - 1) + 1)
                /\ log[j].kind = "E"
                /\ ~HasItem(s)
                /\ c[Len(c)] = o.raiser
                /\ Count(c, "iterate") = j - 1
                /\ Count(c, "condition")
                     = (IF o.raiser = "iterate" THEN j - 1 ELSE j)
                /\ Count(c, "result_selector")
                     = (IF o.raiser = "result_selector" THEN j ELSE j - 1)

C5_Witness ==
    \E s \in Subs :
        /\ sub[s].eff.op = "generate" /\ sub[s].eff.sched = "later"
        /\ sub[s].eff.raiser = "result_selector"
        /\ sub[s].eff.raiseAt = sub[s].eff.initial_state + 1
        /\ Len(sub[s].log) = 2
        /\ sub[s].log[1].kind = "N" /\ sub[s].log[2].kind = "E"
        /\ sub[(3 - s)].phase = "subscribed"

\* C6: in using, if a factory raises, subscribe does not raise, the observer
\* receives one on_error and nothing else, observable_factory is not called
\* after resource_factory raised, and the resource already acquired is
\* disposed exactly once through the disposable subscribe returns.
C6_UsingFactoryRaises ==
    \A s \in Subs :
        (via[s] /\ wrapper.op = "using" /\ FactoryRaises(wrapper)) =>
            /\ sub[s].phase # "raised"
            /\ (sub[s].phase = "subscribed" /\ busy # s) =>
                  (Len(sub[s].log) = 1 /\ sub[s].log[1].kind = "E")
            /\ wrapper.rf = "raise" =>
                  Count(sub[s].calls, "observable_factory") = 0
            /\ sub[s].released <= 1
            /\ (sub[s].disposed /\ sub[s].resource \in {"truthy", "falsy"}) =>
                  sub[s].released = 1

\* C7: in using, the resource is not disposed while the subscription is
\* active, and has been disposed once the subscription has ended by
\* on_completed, on_error or a dispose of the handle.
Ended(s) ==
    \/ sub[s].disposed
    \/ sub[s].log # <<>> /\ Terminal(sub[s].log[Len(sub[s].log)])

C7_ResourceLifetime ==
    \A s \in Subs :
        (via[s] /\ wrapper.op = "using" /\ sub[s].phase = "subscribed"
            /\ sub[s].resource \in {"truthy", "falsy"}) =>
            /\ ~Ended(s) => sub[s].released = 0
            /\ (Ended(s) /\ busy # s) => sub[s].released >= 1

\* C8: in defer, if observable_factory raises, subscribe does not raise, the
\* observer receives one on_error and nothing else, and a disposable is
\* returned; if the factory returns an observable, the observer receives the
\* notifications of a direct subscription to that observable.
C8_Defer ==
    \A s \in Subs :
        (via[s] /\ wrapper.op = "defer") =>
            /\ wrapper.of = "raise" =>
                  /\ sub[s].phase # "raised"
                  /\ (sub[s].phase = "subscribed" /\ busy # s) =>
                        /\ Len(sub[s].log) = 1
                        /\ sub[s].log[1].kind = "E"
                        /\ sub[s].handle \subseteq {"work"}
            /\ wrapper.of = "ok" =>
                  \A t \in Subs :
                     (~via[t] /\ sub[s].phase # "idle" /\ sub[t].phase # "idle"
                         /\ ~sub[s].disposed /\ ~sub[t].disposed
                         /\ ~HasItem(s) /\ ~HasItem(t)) =>
                        /\ sub[s].log = sub[t].log
                        /\ sub[s].raised = sub[t].raised

C8_Witness ==
    \E s \in Subs :
        /\ via[s] /\ wrapper.op = "defer" /\ wrapper.of = "raise"
        /\ sub[s].phase = "subscribed"
        /\ Len(sub[s].log) = 1
        /\ sub[s].disposed

\* C9: subscribe on an observable built by generate, defer or using never
\* raises to the caller.
C9_SubscribeNeverRaises ==
    \A s \in Subs :
        (via[s] \/ source.op = "generate") => sub[s].phase # "raised"

\* C10: for range, from_array and generate on a scheduler that runs
\* continuations later, disposing the subscription between two iterations
\* leaves the pending continuation without effect: nothing is delivered
\* after the dispose.
Iterative(o) == o.op \in {"range", "from_array", "generate"}

C10_DisposeStopsIteration ==
    \A s \in Subs :
        (Iterative(sub[s].eff) /\ sub[s].eff.sched = "later") =>
            /\ sub[s].late = <<>>
            /\ sub[s].disposed => ~HasItem(s)

C10_Witness ==
    \E s \in Subs :
        /\ sub[s].eff.op = "from_array" /\ sub[s].eff.sched = "later"
        /\ sub[s].disposed
        /\ Len(sub[s].log) = 1
        /\ Len(sub[s].eff.array) = MaxLen
        /\ sub[s].closure.count = 1

\* C11: two observers of the same from_array, generate or range observable,
\* their actions interleaved in any order, each receive the sequence from
\* its beginning; a subscription does not change what another one receives.
ArrayExpected(o) ==
    [k \in 1..Len(o.array) |-> OnNext(o.array[k])] \o <<OnCompleted>>

FirstExpected(o) ==
    CASE o.op = "range" -> RangeExpected(o)[1]
      [] o.op = "from_array" -> ArrayExpected(o)[1]
      [] o.op = "generate" -> GenerateExpected(o)[1]

C11_IndependentSubscriptions ==
    \A s \in Subs : \A t \in Subs :
        (~via[s] /\ ~via[t] /\ Iterative(source)
            /\ sub[s].phase = "subscribed" /\ sub[t].phase = "subscribed") =>
            /\ IsPrefix(sub[s].log, sub[t].log) \/ IsPrefix(sub[t].log, sub[s].log)
            /\ (sub[s].log # <<>> /\ sub[s].log[1].kind # "E") =>
                  sub[s].log[1] = FirstExpected(source)
            /\ (RanOut(s) /\ RanOut(t)) => sub[s].log = sub[t].log

C11_Witness ==
    /\ source.op = "from_array" /\ Len(source.array) = MaxLen
    /\ source.array[1] # source.array[MaxLen]
    /\ \A s \in Subs :
          /\ ~via[s] /\ sub[s].phase = "subscribed"
          /\ Len(sub[s].log) = 1 /\ HasItem(s) /\ ~sub[s].disposed
    /\ Len(queue) = 2

\* C12: range on the current-thread scheduler: the re-invocation handle only
\* enqueues the next iteration, and the number of nested active invocations
\* of the action is bounded by a constant, whatever the count.
PendingOf(s) == Cardinality({k \in 1..Len(queue) : queue[k].sub = s})

C12_TrampolineDepth ==
    \A s \in Subs :
        (sub[s].eff.op = "range" /\ sub[s].eff.sched = "current") =>
            /\ sub[s].depth <= 1
            /\ PendingOf(s) <= 1
            /\ local = <<>>

C12_Witness ==
    \E s \in Subs :
        /\ sub[s].eff.op = "range" /\ sub[s].eff.sched = "current"
        /\ sub[s].eff.count = MaxCount
        /\ RanOut(s)
        /\ Len(sub[s].log) = MaxCount + 1
        /\ sub[s].depth = 1

\* C13: throw_exception(e) delivers no on_next, no on_completed and exactly
\* one on_error, whose argument is e itself.
C13_ThrowDeliversItself ==
    \A s \in Subs : \A e \in Errors :
        (~via[s] /\ sub[s].phase = "subscribed"
            /\ \E sc \in SchedulerArgs : source = throw_exception(e, sc)) =>
            /\ IsPrefix(sub[s].log, <<OnError(e)>>)
            /\ RanOut(s) => sub[s].log = <<OnError(e)>>

\* C14: each subscription to return_value(v) delivers on_next(v) and then
\* on_completed from one scheduled action: in no state has an observer
\* received the first without the second, so nothing comes between them.
C14_ReturnValueAtomic ==
    \A s \in Subs :
        (sub[s].phase = "subscribed" /\ sub[s].eff.op = "return_value") =>
            /\ sub[s].log \in {<<>>, <<OnNext(sub[s].eff.value), OnCompleted>>}
            /\ RanOut(s) => sub[s].log # <<>>
            /\ sub[s].log # <<>> => ~HasItem(s)

C14_Witness ==
    /\ source.op = "return_value" /\ source.sched = "later" /\ source.value = 2
    /\ \A s \in Subs : ~via[s] /\ RanOut(s) /\ Len(sub[s].log) = 2

\* C15: from_array(array) delivers array[0], ..., array[L-1] in index order,
\* each once, then one on_completed and no on_error; only on_completed for
\* an empty array.
C15_ArraySequence ==
    \A s \in Subs :
        (sub[s].phase = "subscribed" /\ sub[s].eff.op = "from_array") =>
            LET o == sub[s].eff
                values == {k \in 1..Len(sub[s].log) : sub[s].log[k].kind = "N"}
            IN  /\ IsPrefix(sub[s].log, ArrayExpected(o))
                /\ sub[s].closure.count = Cardinality(values)
                /\ RanOut(s) => sub[s].log = ArrayExpected(o)
                /\ (RanOut(s) /\ o.array = <<>>) => sub[s].log = <<OnCompleted>>

C15_Witness ==
    \E s \in Subs :
        /\ sub[s].eff.op = "from_array" /\ sub[s].eff.array = <<2, 1>>
        /\ RanOut(s)
        /\ sub[s].log = <<OnNext(2), OnNext(1), OnCompleted>>

\* C16: a subscription to never() invokes no observer method, whatever
\* happens and however often its disposable is disposed; subscribe and
\* dispose do not raise.
ToNever(s) == source.op = "never" /\ (~via[s] \/ ~FactoryRaises(wrapper))

C16_NeverSilent ==
    \A s \in Subs :
        ToNever(s) =>
            /\ sub[s].log = <<>>
            /\ sub[s].late = <<>>
            /\ sub[s].phase # "raised"
            /\ ~HasItem(s)
            /\ sub[s].phase = "subscribed" => sub[s].handle \subseteq {"resource"}

C16_Witness ==
    \E s \in Subs :
        /\ ToNever(s) /\ ~via[s]
        /\ sub[s].phase = "subscribed"
        /\ sub[s].disposed
        /\ sub[s].disposals = MaxDispose

\* C17: when a callback or factory raises e in generate, defer or using, the
\* argument of on_error is e itself, for every kind of e, and the same for
\* the three operators.
C17_ErrorPassedUnchanged ==
    \A s \in Subs : \A k \in 1..Len(sub[s].log) :
        sub[s].log[k].kind = "E" =>
            /\ sub[s].eff.op = "generate" =>
                  sub[s].log[k].err = sub[s].eff.exception
            /\ (via[s] /\ FactoryRaises(wrapper)) =>
                  sub[s].log[k].err = wrapper.exception

\* C19: in using, every resource that resource_factory returns, other than
\* None, is disposed when the disposable returned by subscribe is disposed,
\* whatever its truth value.
C19_ResourceReleasedOnDispose ==
    \A s \in Subs :
        (via[s] /\ wrapper.op = "using" /\ sub[s].disposed
            /\ sub[s].resource \in {"truthy", "falsy"}) =>
            sub[s].released = 1

\* C18: repeat(value, count) called without a scheduler emits its element on
\* the immediate scheduler, as return_value(value).repeat(count) does: every
\* element and the on_completed have been delivered when subscribe returns.
C18_RepeatDefaultsToImmediate ==
    \A s \in Subs :
        (~via[s] /\ sub[s].phase = "subscribed"
            /\ \E v \in Values, n \in 1..MaxCount : source = repeat(v, n, "None")) =>
            /\ sub[s].eff.sched = return_value(source.value, "None").sched
            /\ (HandleReturned(s) /\ ~sub[s].disposed) =>
                  Len(sub[s].log) = source.count + 1

====
